---- MODULE Spec2Model ----
(***************************************************************************)
(* IG comment-to-DM automation backend (main.py, schemas.py).              *)
(*                                                                         *)
(* The state is the document store: one insertion-ordered sequence of      *)
(* documents per collection.  Every HTTP handler is one action; `last'     *)
(* records the most recent request, its response and the store writes it   *)
(* made, in order.  Spec, SpecContacts, SpecSummary and SpecDm run the     *)
(* handlers one request at a time over different ranges of requests;       *)
(* SpecWebhook runs the verification handshake; SpecConc runs on_comment   *)
(* one store call at a time in two interleaved workers.                    *)
(*                                                                         *)
(* Python str values that the handlers compute on (comment text, DM text,  *)
(* keywords, hub.challenge) are sequences of one-character strings.        *)
(* Opaque strings (account, media, user ids, usernames) are TLA+ strings.  *)
(***************************************************************************)
EXTENDS Integers, Sequences, FiniteSets, TLC

VARIABLES db, last, pc, req, loc

vars == <<db, last, pc, req, loc>>

-----------------------------------------------------------------------------
(* Bounds of the model. *)

MaxFlows == 2
MaxAssignments == 2
MaxEvents == 2

-----------------------------------------------------------------------------
(* Python values. *)

\* Python None, where a str is expected (Optional[str]).
NoneVal == "<None>"

\* bool(s) of an Optional[str]: None and "" are falsy.
Truthy(s) == s # NoneVal /\ s # ""

\* Python None, where a str held as a character sequence is expected.
NoneStr == <<NoneVal>>

Uppers == <<"A", "B", "C", "D", "E", "F", "G", "H", "I", "J", "K", "L", "M",
            "N", "O", "P", "Q", "R", "S", "T", "U", "V", "W", "X", "Y", "Z">>

Lowers == <<"a", "b", "c", "d", "e", "f", "g", "h", "i", "j", "k", "l", "m",
            "n", "o", "p", "q", "r", "s", "t", "u", "v", "w", "x", "y", "z">>

Whitespace == {" ", "\t", "\n"}

LowerChar(c) ==
    IF \E i \in 1..Len(Uppers) : Uppers[i] = c
    THEN Lowers[CHOOSE i \in 1..Len(Uppers) : Uppers[i] = c]
    ELSE c

\* str.lower()
lower(s) == [i \in 1..Len(s) |-> LowerChar(s[i])]

\* str.strip(): drop leading and trailing whitespace.
strip(s) ==
    LET keep == {i \in 1..Len(s) : s[i] \notin Whitespace}
    IN  IF keep = {} THEN <<>>
        ELSE LET lo == CHOOSE i \in keep : \A j \in keep : i <= j
                 hi == CHOOSE i \in keep : \A j \in keep : j <= i
             IN  SubSeq(s, lo, hi)

\* k in t, for two str values.
Contains(k, t) ==
    \E i \in 0..(Len(t) - Len(k)) : SubSeq(t, i + 1, i + Len(k)) = k

Digits == <<"0", "1", "2", "3", "4", "5", "6", "7", "8", "9">>

IsDigit(c) == \E i \in 1..Len(Digits) : Digits[i] = c

DigitVal(c) == (CHOOSE i \in 1..Len(Digits) : Digits[i] = c) - 1

RECURSIVE DigitsVal(_)
DigitsVal(s) ==
    IF s = <<>> THEN 0
    ELSE 10 * DigitsVal(SubSeq(s, 1, Len(s) - 1)) + DigitVal(s[Len(s)])

\* The outcome of int(s) for a str s: surrounding whitespace is ignored, one
\* sign is allowed, and at least one digit must follow; anything else raises
\* ValueError.
int_str(s) ==
    LET t == strip(s)
        signed == t # <<>> /\ t[1] \in {"+", "-"}
        body == IF signed THEN SubSeq(t, 2, Len(t)) ELSE t
    IN  IF body # <<>> /\ \A i \in 1..Len(body) : IsDigit(body[i])
        THEN [ok |-> TRUE,
              value |-> IF signed /\ t[1] = "-" THEN 0 - DigitsVal(body)
                        ELSE DigitsVal(body)]
        ELSE [ok |-> FALSE, value |-> 0]

-----------------------------------------------------------------------------
(* The document store (module database, imported at main.py:6). *)

Collections == {"flow", "assignment", "iguser", "conversation", "event"}

\* A store-generated identifier: the k-th document inserted in a collection.
ObjectId(coll, k) == [t |-> "ObjectId", c |-> coll, n |-> k]

\* str(oid): the plain-string form of an identifier, as returned to clients.
str_oid(oid) == [t |-> "str", c |-> oid.c, n |-> oid.n]

\* The empty str, as an identifier string.
EmptyIdStr == [t |-> "str", c |-> "", n |-> 0]

\* bool(s) of an identifier string.
TruthyId(s) == s # EmptyIdStr

\* The identifier string create_document returns for its insert into coll.
inserted_id(d, coll) == str_oid(ObjectId(coll, Len(d[coll]) + 1))

\* create_document(collection_name, data): insert data, with a fresh _id.
create_document(d, coll, data) ==
    [d EXCEPT ![coll] =
        Append(@, data @@ ("_id" :> ObjectId(coll, Len(d[coll]) + 1)))]

\* Whether a document matches an equality filter.  Values of different
\* types are never equal: a str never equals an ObjectId.
Matches(doc, filt) ==
    \A k \in DOMAIN filt : k \in DOMAIN doc /\ doc[k] = filt[k]

\* get_documents(collection_name, filter_dict): the matching documents, in
\* store order.
get_documents(d, coll, filt) ==
    SelectSeq(d[coll], LAMBDA doc : Matches(doc, filt))

\* {**f, **g}
Merge(f, g) ==
    [k \in (DOMAIN f) \cup (DOMAIN g) |-> IF k \in DOMAIN g THEN g[k] ELSE f[k]]

EmptyDb == [c \in Collections |-> <<>>]

-----------------------------------------------------------------------------
(* schemas.py documents, with the fields the handlers read or write. *)

\* Flow(accountId, keywords): the fields on_comment reads.
Flow(accountId, keywords) == [accountId |-> accountId, keywords |-> keywords]

\* AssignRequest.model_dump()
Assignment(accountId, igMediaId, flowId) ==
    [accountId |-> accountId, igMediaId |-> igMediaId, flowId |-> flowId]

\* IGUser(accountId=..., igUserId=..., username=...)
IGUser(accountId, igUserId, username) ==
    [accountId |-> accountId, igUserId |-> igUserId, username |-> username]

\* Event(type=..., accountId=..., payload=...)
Event(type, accountId, payload) ==
    [type |-> type, accountId |-> accountId, payload |-> payload]

\* f"Commented: {text}".  A message text is a str held as a sequence: a
\* literal is one element, interpolated text follows character by character.
Commented(text) == <<"Commented: ">> \o text

AskFollowText ==
    << "Hey! Thanks for commenting. If you enjoy this, consider following us for more. Reply with 'I followed' to continue." >>

DeliverText ==
    << "Awesome! Here is your promised item: https://example.com/asset?token=demo" >>

HintText == "Reply 'I followed' to proceed or 'STOP' to opt out."

\* The str literals of on_dm.
S_i_followed == <<"i", " ", "f", "o", "l", "l", "o", "w", "e", "d">>
S_followed == <<"f", "o", "l", "l", "o", "w", "e", "d">>
S_yes == <<"y", "e", "s">>
S_stop == <<"s", "t", "o", "p">>
S_unsubscribe == <<"u", "n", "s", "u", "b", "s", "c", "r", "i", "b", "e">>

-----------------------------------------------------------------------------
(* on_comment, main.py:99-144 *)

\* The result of a handler: the store after it, its response, the
\* collections it wrote to, in order, and the _id of the Flow it gated on.
NoFlow == [t |-> "None", c |-> "", n |-> 0]

Result(d, writes, resp, flow) ==
    [db |-> d, writes |-> writes, resp |-> resp, flow |-> flow]

\* Variant: a refused comment is logged as an Event all the same.
not_processed_logged(d, reason, flow) ==
    Result(create_document(d, "event",
                           [type |-> "comment_skipped", accountId |-> "",
                            payload |-> [reason |-> reason]]),
           <<"event">>, [processed |-> FALSE, reason |-> reason], flow)

\* return {"processed": False, "reason": reason}
not_processed(d, reason, flow) ==
    Result(d, <<>>, [processed |-> FALSE, reason |-> reason], flow)

\* 1) the assignments of this media
find_assigns(d, ev) ==
    get_documents(d, "assignment",
                  [igMediaId |-> ev.igMediaId, accountId |-> ev.accountId])

\* 2) the Flow looked up by the assignment's flowId
find_flow_by_id(d, assignment) ==
    IF TruthyId(assignment.flowId)
    THEN get_documents(d, "flow", [x \in {"_id"} |-> assignment.flowId])
    ELSE <<>>

\* fallback: the Flows of the account
find_flow_fallback(d, ev) ==
    get_documents(d, "flow", [accountId |-> ev.accountId])

load_flow(d, ev, assignment) ==
    LET flow_docs == find_flow_by_id(d, assignment)
    IN  IF flow_docs = <<>> THEN find_flow_fallback(d, ev) ELSE flow_docs

\* Variant: the keywords are lowercased, the comment text is not.
keyword_not_matched_raw_text(flow, text) ==
    LET kws == [i \in 1..Len(flow.keywords) |-> lower(flow.keywords[i])]
    IN  /\ kws # <<>>
        /\ ~ \E i \in 1..Len(kws) : Contains(kws[i], text)

\* kws = [k.lower() for k in (flow.get("keywords") or [])]
\* kws and not any(k in ev.text.lower() for k in kws)
keyword_not_matched(flow, text) ==
    LET kws == [i \in 1..Len(flow.keywords) |-> lower(flow.keywords[i])]
    IN  /\ kws # <<>>
        /\ ~ \E i \in 1..Len(kws) : Contains(kws[i], lower(text))

\* 3) the IG users of this (igUserId, accountId)
find_users(d, ev) ==
    get_documents(d, "iguser",
                  [igUserId |-> ev.igUserId, accountId |-> ev.accountId])

\* A step of a handler that writes: the store and the write log after it.
Write(s, coll, data) ==
    [db |-> create_document(s.db, coll, data), writes |-> Append(s.writes, coll)]

\* Variant: a Contact is inserted on every processed comment.
upsert_iguser_always(s, ev, users) ==
    Write(s, "iguser", IGUser(ev.accountId, ev.igUserId, ev.username))

\* Variant: the insert is conditional on the store as it is when it runs.
upsert_iguser_recheck(s, ev, users) ==
    IF users # <<>> \/ find_users(s.db, ev) # <<>> THEN s
    ELSE Write(s, "iguser", IGUser(ev.accountId, ev.igUserId, ev.username))

upsert_iguser(s, ev, users) ==
    IF users # <<>> THEN s
    ELSE Write(s, "iguser", IGUser(ev.accountId, ev.igUserId, ev.username))

\* Variant: the agent's prompt is logged before the user's comment.
comment_convo_agent_first(ev) ==
    [accountId |-> ev.accountId,
     igUserId |-> ev.igUserId,
     messages |-> << [role |-> "agent", text |-> AskFollowText],
                     [role |-> "user", text |-> Commented(ev.text)] >>]

\* 4) the conversation message log
comment_convo(ev) ==
    [accountId |-> ev.accountId,
     igUserId |-> ev.igUserId,
     messages |-> << [role |-> "user", text |-> Commented(ev.text)],
                     [role |-> "agent", text |-> AskFollowText] >>]

log_comment_conversation(s, ev) == Write(s, "conversation", comment_convo(ev))

\* 5) the event
emit_comment_event(s, ev) ==
    Write(s, "event", Event("comment_trigger", ev.accountId, ev))

on_comment(d, ev) ==
    LET assigns == find_assigns(d, ev)
    IN  IF assigns = <<>>
        THEN not_processed(d, "No flow assigned", NoFlow)
        ELSE
        LET flow_docs == load_flow(d, ev, assigns[1])
        IN  IF flow_docs = <<>>
            THEN not_processed(d, "Flow not found", NoFlow)
            ELSE
            LET flow == flow_docs[1]
            IN  IF keyword_not_matched(flow, ev.text)
                THEN not_processed(d, "Keyword not matched", flow["_id"])
                ELSE
                LET s0 == [db |-> d, writes |-> <<>>]
                    s1 == upsert_iguser(s0, ev, find_users(d, ev))
                    s2 == log_comment_conversation(s1, ev)
                    s3 == emit_comment_event(s2, ev)
                IN  Result(s3.db, s3.writes,
                           [processed |-> TRUE, action |-> "asked_follow",
                            next |-> "wait_for_dm_reply"],
                           flow["_id"])

-----------------------------------------------------------------------------
(* on_dm, main.py:151-172 *)

\* Variant: the text is lowercased but not trimmed.
dm_branch_no_strip(text) ==
    LET t == lower(text)
    IN  IF t \in {S_i_followed, S_followed, S_yes} THEN "deliver"
        ELSE IF t \in {S_stop, S_unsubscribe} THEN "opt_out"
        ELSE "other"

\* t = ev.text.strip().lower(), and the branch taken on it
dm_branch(text) ==
    LET t == lower(strip(text))
    IN  IF t \in {S_i_followed, S_followed, S_yes} THEN "deliver"
        ELSE IF t \in {S_stop, S_unsubscribe} THEN "opt_out"
        ELSE "other"

dm_convo(ev) ==
    [accountId |-> ev.accountId,
     igUserId |-> ev.igUserId,
     messages |-> << [role |-> "agent", text |-> DeliverText] >>]

dm_deliver(s, ev) ==
    LET s1 == Write(s, "event", Event("deliver_asset", ev.accountId, ev))
    IN  Write(s1, "conversation", dm_convo(ev))

\* Variant: the opt-out is also logged as a Conversation.
dm_opt_out_logged(s, ev) ==
    Write(Write(s, "event", Event("opt_out", ev.accountId, ev)),
          "conversation", dm_convo(ev))

dm_opt_out(s, ev) == Write(s, "event", Event("opt_out", ev.accountId, ev))

dm_other(s, ev) == Write(s, "event", Event("dm_other", ev.accountId, ev))

on_dm(d, ev) ==
    LET s0 == [db |-> d, writes |-> <<>>]
        b == dm_branch(ev.text)
    IN  IF b = "deliver"
        THEN LET s == dm_deliver(s0, ev)
             IN  Result(s.db, s.writes, [delivered |-> TRUE], NoFlow)
        ELSE IF b = "opt_out"
        THEN LET s == dm_opt_out(s0, ev)
             IN  Result(s.db, s.writes, [opted_out |-> TRUE], NoFlow)
        ELSE LET s == dm_other(s0, ev)
             IN  Result(s.db, s.writes, [ack |-> TRUE, hint |-> HintText], NoFlow)

-----------------------------------------------------------------------------
(* analytics_summary, main.py:175-186 *)

\* filt = {"accountId": accountId} if accountId else {}
summary_filter(accountId) ==
    IF Truthy(accountId) THEN [x \in {"accountId"} |-> accountId] ELSE <<>>

\* Variant: the conversations are counted without the account filter.
analytics_summary_all_conversations(d, accountId) ==
    LET filt == summary_filter(accountId)
        typed(t) == Merge(filt, [x \in {"type"} |-> t])
    IN  [comments_processed |-> Len(get_documents(d, "event", typed("comment_trigger"))),
         assets_delivered |-> Len(get_documents(d, "event", typed("deliver_asset"))),
         opt_outs |-> Len(get_documents(d, "event", typed("opt_out"))),
         conversations |-> Len(get_documents(d, "conversation", <<>>))]

analytics_summary(d, accountId) ==
    LET filt == summary_filter(accountId)
        typed(t) == Merge(filt, [x \in {"type"} |-> t])
    IN  [comments_processed |-> Len(get_documents(d, "event", typed("comment_trigger"))),
         assets_delivered |-> Len(get_documents(d, "event", typed("deliver_asset"))),
         opt_outs |-> Len(get_documents(d, "event", typed("opt_out"))),
         conversations |-> Len(get_documents(d, "conversation", filt))]

-----------------------------------------------------------------------------
(* verify_webhook, main.py:86-90 *)

\* int(hub_challenge or 0)
challenge_int(hub_challenge) ==
    IF hub_challenge = NoneStr \/ hub_challenge = <<>>
    THEN [ok |-> TRUE, value |-> 0]
    ELSE int_str(hub_challenge)

\* The response: the integer body, HTTPException(403), or the 500 that an
\* uncaught ValueError becomes.
verify_webhook(hub_mode, hub_token, hub_challenge) ==
    IF hub_mode = "subscribe" /\ Truthy(hub_token)
    THEN LET n == challenge_int(hub_challenge)
         IN  IF n.ok THEN [status |-> 200, body |-> n.value]
             ELSE [status |-> 500, body |-> 0]
    ELSE [status |-> 403, body |-> 0]

-----------------------------------------------------------------------------
(* Requests. *)

AccountIds == {"acct1", ""}
MediaIds == {"m1", "m2"}
UserIds == {"u1", "u2"}
Usernames == {NoneVal, "nick"}

T_love_this == <<"I", " ", "L", "O", "V", "E", " ", "t", "h", "i", "s", "!">>
T_hi == <<"h", "i">>
K_Love == <<"L", "o", "v", "e">>
K_discount == <<"d", "i", "s", "c", "o", "u", "n", "t">>

KeywordLists == { <<>>, <<K_discount, K_Love>> }
CommentTexts == { T_love_this, T_hi, <<>> }

\* The identifier strings a client sends as flowId: those /flows returned
\* for the first two Flows, and "".
FlowIdStrs ==
    {str_oid(ObjectId("flow", 1)), str_oid(ObjectId("flow", 2)), EmptyIdStr}

\* CommentEvent.model_dump()
CommentEvent(accountId, igMediaId, igUserId, username, text) ==
    [accountId |-> accountId, igMediaId |-> igMediaId, igUserId |-> igUserId,
     username |-> username, text |-> text]

\* DMEvent.model_dump()
DMEvent(accountId, igUserId, text) ==
    [accountId |-> accountId, igUserId |-> igUserId, text |-> text]

D_I_Followed == <<" ", "I", " ", "F", "o", "l", "l", "o", "w", "e", "d">>
D_STOP == <<"S", "T", "O", "P">>
D_yes_please == <<"y", "e", "s", " ", "p", "l", "e", "a", "s", "e">>

DmTexts == { D_I_Followed, D_STOP, D_yes_please }

SummaryArgs == AccountIds \cup {NoneVal}

-----------------------------------------------------------------------------
(* The handlers as actions, one request at a time. *)

Workers == {1, 2}

NoReq == [op |-> "none"]
NoLoc == [assigns |-> <<>>, flow_docs |-> <<>>, users |-> <<>>, writes |-> <<>>]

Idle ==
    /\ pc = [w \in Workers |-> "idle"]
    /\ req = [w \in Workers |-> NoReq]
    /\ loc = [w \in Workers |-> NoLoc]

Init ==
    /\ db = EmptyDb
    /\ last = [op |-> "init", req |-> NoReq, resp |-> NoReq,
               writes |-> <<>>, flow |-> NoFlow]
    /\ Idle

Respond(op, r, res) ==
    /\ db' = res.db
    /\ last' = [op |-> op, req |-> r, resp |-> res.resp,
                writes |-> res.writes, flow |-> res.flow]
    /\ UNCHANGED <<pc, req, loc>>

\* create_flow, main.py:61-64
create_flow(d, flow) ==
    Result(create_document(d, "flow", flow), <<"flow">>,
           [id |-> inserted_id(d, "flow")], NoFlow)

\* assign_flow, main.py:79-82
assign_flow(d, r) ==
    Result(create_document(d, "assignment", r), <<"assignment">>,
           [id |-> inserted_id(d, "assignment")], NoFlow)

CreateFlow(flow) ==
    /\ Len(db.flow) < MaxFlows
    /\ Respond("create_flow", flow, create_flow(db, flow))

AssignFlow(r) ==
    /\ Len(db.assignment) < MaxAssignments
    /\ Respond("assign_flow", r, assign_flow(db, r))

OnComment(ev) ==
    /\ Len(db.event) < MaxEvents
    /\ Respond("on_comment", ev, on_comment(db, ev))

OnDm(ev) ==
    /\ Len(db.event) < MaxEvents
    /\ Respond("on_dm", ev, on_dm(db, ev))

AnalyticsSummary(accountId) ==
    Respond("analytics_summary", [accountId |-> accountId],
            Result(db, <<>>, analytics_summary(db, accountId), NoFlow))

(* The comment matcher: Flows of two accounts, the assignments of one      *)
(* media, and comments on that media and on an unassigned one.             *)

MatcherFlows == {Flow(a, k) : a \in AccountIds, k \in KeywordLists}

MatcherAssigns == {Assignment("acct1", "m1", f) : f \in FlowIdStrs}

MatcherComments ==
    {CommentEvent("acct1", m, "u1", NoneVal, t) : m \in MediaIds, t \in CommentTexts}

Next ==
    \/ \E flow \in MatcherFlows : CreateFlow(flow)
    \/ \E r \in MatcherAssigns : AssignFlow(r)
    \/ \E ev \in MatcherComments : OnComment(ev)

Spec == Init /\ [][Next]_vars

-----------------------------------------------------------------------------
(* Contacts: comments and DMs of three (accountId, igUserId) pairs, one of *)
(* them under two usernames.                                               *)

ContactFlows == {Flow(a, <<>>) : a \in AccountIds}

ContactAssigns == {Assignment(a, "m1", EmptyIdStr) : a \in AccountIds}

ContactComments ==
    {CommentEvent("acct1", "m1", "u1", n, T_hi) : n \in Usernames}
    \cup {CommentEvent("acct1", "m1", "u2", NoneVal, T_hi),
          CommentEvent("", "m1", "u1", NoneVal, T_hi)}

ContactDms == {DMEvent("acct1", "u1", D_STOP)}

NextContacts ==
    \/ \E flow \in ContactFlows : CreateFlow(flow)
    \/ \E r \in ContactAssigns : AssignFlow(r)
    \/ \E ev \in ContactComments : OnComment(ev)
    \/ \E ev \in ContactDms : OnDm(ev)

SpecContacts == Init /\ [][NextContacts]_vars

-----------------------------------------------------------------------------
(* Analytics: the summary over Events and Conversations of two accounts.   *)

SummaryDms == {DMEvent(a, "u1", t) : a \in AccountIds, t \in DmTexts}

NextSummary ==
    \/ CreateFlow(Flow("acct1", <<>>))
    \/ AssignFlow(Assignment("acct1", "m1", EmptyIdStr))
    \/ OnComment(CommentEvent("acct1", "m1", "u1", NoneVal, T_hi))
    \/ \E ev \in SummaryDms : OnDm(ev)
    \/ \E a \in SummaryArgs : AnalyticsSummary(a)

SpecSummary == Init /\ [][NextSummary]_vars

-----------------------------------------------------------------------------
(* The DM responder on a wider range of texts and users, over a store that *)
(* a flow, an assignment and processed comments may have filled.           *)

D_followed == <<"f", "o", "l", "l", "o", "w", "e", "d">>
D_YES_nl == <<"Y", "E", "S", "\n">>
D_unsubscribe_sp == <<" ", "u", "n", "s", "u", "b", "s", "c", "r", "i", "b", "e", " ">>
D_s_top == <<"s", " ", "t", "o", "p">>
D_hello == <<"h", "e", "l", "l", "o">>

DmTextsWide ==
    DmTexts \cup {D_followed, D_YES_nl, S_yes, D_unsubscribe_sp, D_s_top, D_hello, <<>>}

\* Every text from one user, and two of them from every account and user.
DmEventsWide ==
    {DMEvent("acct1", "u1", t) : t \in DmTextsWide}
    \cup {DMEvent(a, u, t) : a \in AccountIds, u \in UserIds, t \in {D_I_Followed, D_STOP}}

NextDm ==
    \/ \E ev \in DmEventsWide : OnDm(ev)
    \/ CreateFlow(Flow("acct1", <<>>))
    \/ AssignFlow(Assignment("acct1", "m1", str_oid(ObjectId("flow", 1))))
    \/ OnComment(CommentEvent("acct1", "m1", "u1", NoneVal, T_hi))

SpecDm == Init /\ [][NextDm]_vars

-----------------------------------------------------------------------------
(* The verification handshake over its query parameters. *)

HubModes == {NoneVal, "", "subscribe", "unsubscribe"}
HubTokens == {NoneVal, "", "secret"}

H_12345 == <<"1", "2", "3", "4", "5">>
H_abc == <<"a", "b", "c">>
H_minus7 == <<"-", "7">>
H_sp42 == <<" ", "4", "2", " ">>
H_12x == <<"1", "2", "x">>
H_007 == <<"0", "0", "7">>
H_0 == <<"0">>

HubChallenges == {NoneStr, <<>>, H_12345, H_abc, H_minus7, H_sp42, H_12x, H_007, H_0}

VerifyWebhook(hub_mode, hub_token, hub_challenge) ==
    Respond("verify_webhook",
            [hub_mode |-> hub_mode, hub_token |-> hub_token,
             hub_challenge |-> hub_challenge],
            Result(db, <<>>, verify_webhook(hub_mode, hub_token, hub_challenge), NoFlow))

NextWebhook ==
    \E m \in HubModes, t \in HubTokens, c \in HubChallenges : VerifyWebhook(m, t, c)

SpecWebhook == Init /\ [][NextWebhook]_vars

-----------------------------------------------------------------------------
(* on_comment one store call at a time, in two workers that share the      *)
(* store: main.py holds no lock and opens no transaction.                  *)

ConcCommentEvents ==
    {CommentEvent("acct1", "m1", "u1", n, T_hi) : n \in Usernames}

Goto(w, label, l) ==
    /\ pc' = [pc EXCEPT ![w] = label]
    /\ loc' = [loc EXCEPT ![w] = l]
    /\ UNCHANGED <<req, last>>

\* The handler returns: the response is recorded and the worker is free.
Return(w, resp, flow) ==
    /\ last' = [op |-> "on_comment", req |-> req[w], resp |-> resp,
                writes |-> loc'[w].writes, flow |-> flow]
    /\ pc' = [pc EXCEPT ![w] = "idle"]
    /\ req' = [req EXCEPT ![w] = NoReq]

Started == Cardinality({w \in Workers : pc[w] # "idle"})

Receive(w, ev) ==
    /\ pc[w] = "idle"
    /\ Len(db.event) + Started < MaxEvents
    /\ pc' = [pc EXCEPT ![w] = "assigns"]
    /\ req' = [req EXCEPT ![w] = ev]
    /\ loc' = [loc EXCEPT ![w] = NoLoc]
    /\ UNCHANGED <<db, last>>

\* main.py:102-106
GetAssigns(w) ==
    /\ pc[w] = "assigns"
    /\ UNCHANGED db
    /\ LET assigns == find_assigns(db, req[w])
       IN  IF assigns = <<>>
           THEN /\ loc' = [loc EXCEPT ![w] = NoLoc]
                /\ Return(w, not_processed(db, "No flow assigned", NoFlow).resp, NoFlow)
           ELSE Goto(w, "flow", [loc[w] EXCEPT !.assigns = assigns])

\* main.py:109
GetFlow(w) ==
    /\ pc[w] = "flow"
    /\ UNCHANGED db
    /\ LET flow_docs == find_flow_by_id(db, loc[w].assigns[1])
       IN  Goto(w, IF flow_docs = <<>> THEN "fallback" ELSE "keywords",
                [loc[w] EXCEPT !.flow_docs = flow_docs])

\* main.py:110-114
GetFallbackFlow(w) ==
    /\ pc[w] = "fallback"
    /\ UNCHANGED db
    /\ LET flow_docs == find_flow_fallback(db, req[w])
       IN  IF flow_docs = <<>>
           THEN /\ loc' = [loc EXCEPT ![w] = NoLoc]
                /\ Return(w, not_processed(db, "Flow not found", NoFlow).resp, NoFlow)
           ELSE Goto(w, "keywords", [loc[w] EXCEPT !.flow_docs = flow_docs])

\* main.py:116-119
CheckKeywords(w) ==
    /\ pc[w] = "keywords"
    /\ UNCHANGED db
    /\ LET flow == loc[w].flow_docs[1]
       IN  IF keyword_not_matched(flow, req[w].text)
           THEN /\ loc' = [loc EXCEPT ![w] = NoLoc]
                /\ Return(w, not_processed(db, "Keyword not matched", flow["_id"]).resp,
                          flow["_id"])
           ELSE Goto(w, "users", loc[w])

\* main.py:122
GetUsers(w) ==
    /\ pc[w] = "users"
    /\ UNCHANGED db
    /\ Goto(w, "upsert", [loc[w] EXCEPT !.users = find_users(db, req[w])])

WriteStep(w, s, label) ==
    /\ db' = s.db
    /\ Goto(w, label, [loc[w] EXCEPT !.writes = s.writes])

Session(w) == [db |-> db, writes |-> loc[w].writes]

\* main.py:123-128, on the users read at line 122
UpsertUser(w) ==
    /\ pc[w] = "upsert"
    /\ WriteStep(w, upsert_iguser(Session(w), req[w], loc[w].users), "conversation")

\* main.py:131-139
InsertConversation(w) ==
    /\ pc[w] = "conversation"
    /\ WriteStep(w, log_comment_conversation(Session(w), req[w]), "event")

\* main.py:142-144
InsertEvent(w) ==
    /\ pc[w] = "event"
    /\ LET s == emit_comment_event(Session(w), req[w])
       IN  /\ db' = s.db
           /\ loc' = [loc EXCEPT ![w] = [NoLoc EXCEPT !.writes = s.writes]]
           /\ Return(w, [processed |-> TRUE, action |-> "asked_follow",
                         next |-> "wait_for_dm_reply"],
                     loc[w].flow_docs[1]["_id"])

NextConc ==
    \/ CreateFlow(Flow("acct1", <<K_discount, K_Love>>))
    \/ CreateFlow(Flow("acct1", <<>>))
    \/ AssignFlow(Assignment("acct1", "m1", str_oid(ObjectId("flow", 1))))
    \/ \E w \in Workers :
          \/ \E ev \in ConcCommentEvents : Receive(w, ev)
          \/ GetAssigns(w)
          \/ GetFlow(w)
          \/ GetFallbackFlow(w)
          \/ CheckKeywords(w)
          \/ GetUsers(w)
          \/ UpsertUser(w)
          \/ InsertConversation(w)
          \/ InsertEvent(w)

SpecConc == Init /\ [][NextConc]_vars

-----------------------------------------------------------------------------
(* Vocabulary of the properties. *)

\* k occurs in t as a contiguous run of characters.
IsSubstring(k, t) ==
    \E i \in 0..Len(t) : \E j \in i..Len(t) : SubSeq(t, i + 1, j) = k

\* The stored Flow with a given _id (documents are never deleted).
FlowOf(oid) == db.flow[oid.n]

IsComment(l) == l.op = "on_comment"
IsDm(l) == l.op = "on_dm"
Processed(l) == IsComment(l) /\ l.resp.processed
NotProcessed(l) == IsComment(l) /\ ~ l.resp.processed

\* Contacts, by their (accountId, igUserId).
SamePair(x, y) == x.accountId = y.accountId /\ x.igUserId = y.igUserId

HasContact(d, ev) == \E i \in 1..Len(d.iguser) : SamePair(d.iguser[i], ev)

AtMostOneContact ==
    \A i, j \in 1..Len(db.iguser) :
        SamePair(db.iguser[i], db.iguser[j]) => i = j

\* d2 is d1 with exactly the documents `docs' appended to collection c
\* (identifiers aside).
Appended(d1, d2, c, docs) ==
    /\ Len(d2[c]) = Len(d1[c]) + Len(docs)
    /\ SubSeq(d2[c], 1, Len(d1[c])) = d1[c]
    /\ \A i \in 1..Len(docs) :
          \A k \in DOMAIN docs[i] : d2[c][Len(d1[c]) + i][k] = docs[i][k]

\* The documents of collection c that some field-wise test selects.
Count(c, Test(_)) == Cardinality({i \in 1..Len(db[c]) : Test(db[c][i])})

-----------------------------------------------------------------------------
\* C1: a comment event that has an assignment and a selected Flow with
\* keyword list K is processed whatever its text when K is empty; when K is
\* non-empty it is processed iff the lowercased text contains a lowercased
\* member of K as a substring, and is otherwise answered processed=false
\* with reason "Keyword not matched".
C1_KeywordGate ==
    (IsComment(last) /\ last.flow # NoFlow) =>
        LET K == FlowOf(last.flow).keywords
            t == last.req.text
            hit == \E i \in 1..Len(K) : IsSubstring(lower(K[i]), lower(t))
        IN  /\ K = <<>> => last.resp.processed
            /\ K # <<>> => (last.resp.processed <=> hit)
            /\ ~ last.resp.processed =>
                   last.resp = [processed |-> FALSE, reason |-> "Keyword not matched"]

\* A processed comment whose match needed the lowercasing of both sides.
C1_Witness ==
    /\ Processed(last)
    /\ LET K == FlowOf(last.flow).keywords
       IN  /\ K # <<>>
           /\ \A i \in 1..Len(K) : ~ IsSubstring(K[i], last.req.text)
           /\ \A i \in 1..Len(K) : ~ IsSubstring(lower(K[i]), last.req.text)
           /\ \A i \in 1..Len(K) : ~ IsSubstring(K[i], lower(last.req.text))

-----------------------------------------------------------------------------
HasAssignment(d, ev) ==
    \E i \in 1..Len(d.assignment) :
        /\ d.assignment[i].igMediaId = ev.igMediaId
        /\ d.assignment[i].accountId = ev.accountId

C2_Step ==
    /\ NotProcessed(last') =>
          /\ db' = db
          /\ last'.writes = <<>>
          /\ last'.resp.reason \in
                {"No flow assigned", "Flow not found", "Keyword not matched"}
    /\ (IsComment(last') /\ ~ HasAssignment(db, last'.req)) =>
          /\ last'.resp = [processed |-> FALSE, reason |-> "No flow assigned"]
          /\ db' = db

\* C2: a comment event answered processed=false (for any of its three
\* reasons) leaves every collection unchanged, and a comment event whose
\* (igMediaId, accountId) has no assignment is answered
\* {processed: false, reason: "No flow assigned"} without a write.
C2_NotProcessedWritesNothing == [][C2_Step]_vars

\* An unassigned comment arrives at a store that holds contacts,
\* conversations and events.
C2_Witness ==
    /\ NotProcessed(last)
    /\ last.resp.reason = "No flow assigned"
    /\ db.iguser # <<>> /\ db.conversation # <<>> /\ db.event # <<>>

-----------------------------------------------------------------------------
GatePassed(d, l) ==
    /\ l.flow # NoFlow
    /\ LET K == d.flow[l.flow.n].keywords
       IN  K = <<>> \/ \E i \in 1..Len(K) : IsSubstring(lower(K[i]), lower(l.req.text))

C3_Step ==
    /\ Processed(last') =>
          LET ev == last'.req
              n == Len(last'.writes)
          IN  /\ Appended(db, db', "conversation",
                    << [accountId |-> ev.accountId, igUserId |-> ev.igUserId,
                        messages |->
                          << [role |-> "user", text |-> <<"Commented: ">> \o ev.text],
                             [role |-> "agent", text |-> AskFollowText] >>] >>)
              /\ Appended(db, db', "event",
                    << [type |-> "comment_trigger", accountId |-> ev.accountId,
                        payload |-> ev] >>)
              /\ last'.resp = [processed |-> TRUE, action |-> "asked_follow",
                               next |-> "wait_for_dm_reply"]
              /\ n >= 2
              /\ last'.writes[n - 1] = "conversation"
              /\ last'.writes[n] = "event"
              /\ GatePassed(db, last')
    /\ (IsComment(last') /\ db'.conversation # db.conversation) =>
          GatePassed(db, last')

\* C3: a comment event that passes the three checks adds exactly one
\* Conversation for (accountId, igUserId) with two messages, the user-role
\* echo of the comment and then the fixed agent-role prompt, adds exactly
\* one comment_trigger Event for the accountId with the input as payload,
\* and answers processed=true, asked_follow, wait_for_dm_reply; the
\* Conversation is written only when the keyword gate passed, and before
\* the Event.
C3_ProcessedCommentWrites == [][C3_Step]_vars

\* The spec's example: "I LOVE this!" against keywords containing "Love".
C3_Witness ==
    /\ Processed(last)
    /\ last.req.text = T_love_this
    /\ FlowOf(last.flow).keywords # <<>>
    /\ last.writes = <<"iguser", "conversation", "event">>

-----------------------------------------------------------------------------
DmTypes == {"deliver_asset", "opt_out", "dm_other"}

\* C4: the DM responder's branch is a function of the trimmed, lowercased
\* text alone: delivered=true iff it is "i followed", "followed" or "yes",
\* opted_out=true iff it is "stop" or "unsubscribe", ack=true with the hint
\* otherwise; DM events with the same text get the same branch whatever
\* their accountId and igUserId and whatever the store holds.
C4_DmBranch ==
    /\ IsDm(last) =>
          LET t == lower(strip(last.req.text))
              deliver == t \in {S_i_followed, S_followed, S_yes}
              optout == t \in {S_stop, S_unsubscribe}
          IN  /\ last.resp = [delivered |-> TRUE] <=> deliver
              /\ last.resp = [opted_out |-> TRUE] <=> optout
              /\ last.resp = [ack |-> TRUE, hint |-> HintText] <=> ~ (deliver \/ optout)
    /\ \A i, j \in 1..Len(db.event) :
          (/\ db.event[i].type \in DmTypes
           /\ db.event[j].type \in DmTypes
           /\ db.event[i].payload.text = db.event[j].payload.text)
          => db.event[i].type = db.event[j].type

\* The same padded, mixed-case text delivered twice, for two accounts and
\* two users of whom the store knows no contact and no comment.
C4_Witness ==
    /\ IsDm(last)
    /\ last.resp = [delivered |-> TRUE]
    /\ last.req.text # lower(strip(last.req.text))
    /\ db.iguser = <<>>
    /\ Len(db.event) = 2
    /\ db.event[1].type = "deliver_asset"
    /\ db.event[1].payload.text = last.req.text
    /\ db.event[1].payload.accountId # last.req.accountId
    /\ db.event[1].payload.igUserId # last.req.igUserId

-----------------------------------------------------------------------------
C5_Step ==
    IsDm(last') =>
        LET ev == last'.req
            deliver == "delivered" \in DOMAIN last'.resp
            type == IF deliver THEN "deliver_asset"
                    ELSE IF "opted_out" \in DOMAIN last'.resp THEN "opt_out"
                    ELSE "dm_other"
        IN  /\ Appended(db, db', "event",
                  << [type |-> type, accountId |-> ev.accountId, payload |-> ev] >>)
            /\ IF deliver
               THEN /\ Appended(db, db', "conversation",
                          << [accountId |-> ev.accountId, igUserId |-> ev.igUserId,
                              messages |-> << [role |-> "agent", text |-> DeliverText] >>] >>)
                    /\ last'.writes = <<"event", "conversation">>
               ELSE /\ db'.conversation = db.conversation
                    /\ last'.writes = <<"event">>
            /\ db'.iguser = db.iguser
            /\ db'.flow = db.flow
            /\ db'.assignment = db.assignment

\* C5: a DM event writes exactly one Event, of type deliver_asset, opt_out
\* or dm_other by its branch; it writes a Conversation iff the branch is
\* Deliver, then one document with the single agent-role delivery message,
\* after the Event; it changes no Contact, Flow or Assignment.
C5_DmWrites == [][C5_Step]_vars

\* "STOP" from a user who has a contact and a conversation.
C5_Witness ==
    /\ IsDm(last)
    /\ last.req.text = D_STOP
    /\ last.resp = [opted_out |-> TRUE]
    /\ db.event[Len(db.event)].type = "opt_out"
    /\ HasContact(db, last.req)
    /\ Len(db.conversation) = 1

-----------------------------------------------------------------------------
\* C6: the verification handshake answers the challenge as an integer when
\* mode is "subscribe" and the token is present and non-empty, 0 when the
\* challenge is absent or cannot be parsed as an integer, and 403 in every
\* other case.
C6_Handshake ==
    last.op = "verify_webhook" =>
        LET r == last.req
        IN  IF r.hub_mode = "subscribe" /\ r.hub_token # NoneVal /\ r.hub_token # ""
            THEN /\ last.resp.status = 200
                 /\ last.resp.body =
                       IF r.hub_challenge # NoneStr /\ int_str(r.hub_challenge).ok
                       THEN int_str(r.hub_challenge).value
                       ELSE 0
            ELSE last.resp.status = 403

-----------------------------------------------------------------------------
C7_Step ==
    /\ Processed(last') =>
          IF HasContact(db, last'.req)
          THEN db'.iguser = db.iguser
          ELSE Appended(db, db', "iguser",
                  << [accountId |-> last'.req.accountId,
                      igUserId |-> last'.req.igUserId,
                      username |-> last'.req.username] >>)
    /\ ~ Processed(last') => db'.iguser = db.iguser

\* C7: with comment events handled one at a time, the Contact upsert
\* creates the Contact of (accountId, igUserId) with the event's username
\* when none exists and otherwise leaves the contacts as they are, so that
\* after any sequence of comment and DM events there is at most one Contact
\* for each (accountId, igUserId).
C7_SequentialUpsert == [] AtMostOneContact /\ [][C7_Step]_vars

\* A second processed comment of a known contact, under another username.
C7_Witness ==
    /\ Processed(last)
    /\ last.writes = <<"conversation", "event">>
    /\ \E i \in 1..Len(db.iguser) :
          /\ SamePair(db.iguser[i], last.req)
          /\ db.iguser[i].username # last.req.username

-----------------------------------------------------------------------------
FirstAssignment(d, ev) ==
    d.assignment[CHOOSE i \in 1..Len(d.assignment) :
        /\ d.assignment[i].accountId = ev.accountId
        /\ d.assignment[i].igMediaId = ev.igMediaId
        /\ \A j \in 1..(i - 1) :
              ~ (/\ d.assignment[j].accountId = ev.accountId
                 /\ d.assignment[j].igMediaId = ev.igMediaId)]

\* C8: a comment event with a matching assignment uses the first one, gates
\* on the Flow that assignment's flowId identifies when there is one, falls
\* back to the first Flow of the event's account only when no Flow has that
\* id, and answers "Flow not found" only when the account owns no Flow.
C8_FlowSelection ==
    (IsComment(last) /\ HasAssignment(db, last.req)) =>
        LET a == FirstAssignment(db, last.req)
            byId == {i \in 1..Len(db.flow) : str_oid(db.flow[i]["_id"]) = a.flowId}
            owned == {i \in 1..Len(db.flow) : db.flow[i].accountId = last.req.accountId}
        IN  IF byId # {}
            THEN \E i \in byId : last.flow = db.flow[i]["_id"]
            ELSE IF owned # {}
            THEN last.flow = db.flow[CHOOSE i \in owned : \A j \in owned : i <= j]["_id"]
            ELSE last.resp = [processed |-> FALSE, reason |-> "Flow not found"]

-----------------------------------------------------------------------------
EventsOf(type, InScope(_)) ==
    Count("event", LAMBDA e : e.type = type /\ InScope(e.accountId))

Counts(InScope(_)) ==
    [comments_processed |-> EventsOf("comment_trigger", InScope),
     assets_delivered |-> EventsOf("deliver_asset", InScope),
     opt_outs |-> EventsOf("opt_out", InScope),
     conversations |-> Count("conversation", LAMBDA c : InScope(c.accountId))]

IsSummary(l) == l.op = "analytics_summary"

\* C9 as stated: for an accountId the four counts are those of the stored
\* Events and Conversations with that accountId, and without an accountId
\* they range over all accounts.
C9_AsStated ==
    IsSummary(last) =>
        LET a == last.req.accountId
        IN  IF a # NoneVal
            THEN last.resp = Counts(LAMBDA x : x = a)
            ELSE last.resp = Counts(LAMBDA x : TRUE)

C9_State ==
    IsSummary(last) =>
        LET a == last.req.accountId
        IN  IF a # NoneVal /\ a # ""
            THEN last.resp = Counts(LAMBDA x : x = a)
            ELSE last.resp = Counts(LAMBDA x : TRUE)

C9_Step ==
    /\ IsSummary(last') => db' = db
    /\ (IsDm(last') /\ "ack" \in DOMAIN last'.resp) =>
          \A a \in SummaryArgs : analytics_summary(db', a) = analytics_summary(db, a)

\* C9, amended: for a non-empty accountId the four counts are those of the
\* stored Events and Conversations with that accountId; without an
\* accountId, or with an empty one, they range over all accounts; a
\* dm_other Event changes none of the counts, and the summary writes
\* nothing.
C9_SummaryCounts == [] C9_State /\ [][C9_Step]_vars

\* A summary scoped to one account while another account has documents.
C9_Witness ==
    /\ IsSummary(last)
    /\ Truthy(last.req.accountId)
    /\ last.resp.conversations >= 1
    /\ last.resp.conversations < Len(db.conversation)
    /\ last.resp.comments_processed + last.resp.assets_delivered
          + last.resp.opt_outs < Len(db.event)

-----------------------------------------------------------------------------
C10_Step ==
    \A w \in Workers :
        (pc[w] = "upsert" /\ pc'[w] = "conversation" /\ loc[w].users = <<>>) =>
            Appended(db, db', "iguser",
                << [accountId |-> req[w].accountId, igUserId |-> req[w].igUserId,
                    username |-> req[w].username] >>)

\* C10: when two comment events of one (accountId, igUserId) interleave
\* their store calls, both can read no Contact before either inserts one:
\* a worker that read none inserts its Contact whatever the store holds by
\* then, so two Contacts for one (accountId, igUserId) can come to exist.
C10_RacingUpsertInserts == [][C10_Step]_vars

\* Two Contact documents for one (accountId, igUserId).
C10_Witness == ~ AtMostOneContact

====
